---- MODULE Spec2Model ----
(***************************************************************************)
(* DailyStatus (src/main.py): Git diffs of one day -> prompt -> Gemini     *)
(* report, with a JSON settings file and a Tk form.                        *)
(*                                                                         *)
(* Text is modelled as a sequence of tokens (each token a piece of the     *)
(* Python string); split, replace, strip, join and "in" work on those      *)
(* sequences the way the str methods work on characters.                   *)
(* The en dash of sentence_map ("2–3") is written "-" here.                *)
(***************************************************************************)
EXTENDS Integers, Sequences, FiniteSets, TLC

VARIABLES
    call,         \* the pure function being called and its arguments
    ret,          \* its return value, NoRet before the call
    file,         \* content of CONFIG_PATH
    cfg,          \* the settings dict of the running process
    pc,           \* where the main thread is: start, widgets, form, crashed
    dialogs,      \* message boxes shown by the running process, in order
    repo_var, date_var, style_var, key_var,   \* the form's StringVars
    br_list,      \* rows of the branch Listbox
    br_sel,       \* br_list.curselection(), as the selected names in order
    prompt_text,  \* content of the editable prompt widget
    output_text,  \* content of the output widget
    saved,        \* the dict last written by save_config, NotSaved before
    runs,         \* processes started so far
    gen,          \* the generation threads: gen[t] is thread t's position and locals
    clicks,       \* Generate clicks so far; click number t starts thread t
    posts         \* HTTP POSTs issued so far

pureVars == <<call, ret>>
formVars == <<repo_var, date_var, style_var, key_var, br_list, br_sel, prompt_text,
              output_text>>
appVars == <<file, cfg, pc, dialogs, saved, runs>>
genVars == <<gen, clicks, posts>>
vars == <<call, ret, file, cfg, pc, dialogs, repo_var, date_var, style_var, key_var,
          br_list, br_sel, prompt_text, output_text, saved, runs, gen, clicks, posts>>

NoRet == [kind |-> "none"]

(***************************************************************************)
(* Bounds                                                                  *)
(***************************************************************************)
MaxNameLen == 4
MaxDiffs == 2
MaxParts == 2
MaxCands == 2
MaxBranches == 2
MaxItems == 2
MaxRuns == 2
MaxSaves == 1
MaxClicks == 2

(***************************************************************************)
(* str helpers                                                             *)
(***************************************************************************)
SeqsUpTo(S, n) == UNION {[1..k -> S] : k \in 0..n}

\* sub occurs in s at position i (1-based)
OccursAt(s, sub, i) ==
    /\ i >= 1
    /\ i + Len(sub) - 1 <= Len(s)
    /\ SubSeq(s, i, i + Len(sub) - 1) = sub

\* Python "sub in s"
Contains(s, sub) == \E i \in 1..(Len(s) + 1) : OccursAt(s, sub, i)

\* Python s.find(sub) + 1, 0 when absent
Find(s, sub) ==
    IF Contains(s, sub)
    THEN CHOOSE i \in 1..(Len(s) + 1) :
            /\ OccursAt(s, sub, i)
            /\ \A j \in 1..(i - 1) : ~OccursAt(s, sub, j)
    ELSE 0

\* Python s.split(sep), sep non-empty
RECURSIVE Split(_, _)
Split(s, sep) ==
    LET i == Find(s, sep) IN
    IF i = 0 THEN <<s>>
    ELSE <<SubSeq(s, 1, i - 1)>> \o Split(SubSeq(s, i + Len(sep), Len(s)), sep)

\* Python sep.join(list)
RECURSIVE Join(_, _)
Join(sep, list) ==
    IF list = <<>> THEN <<>>
    ELSE IF Len(list) = 1 THEN list[1]
    ELSE list[1] \o sep \o Join(sep, Tail(list))

(***************************************************************************)
(* Prompt parts                                                            *)
(***************************************************************************)
Styles == {"short", "medium", "long"}

sentence_map(style) ==
    CASE style = "short"  -> <<"Use ", "2-3", " sentences.">>
      [] style = "medium" -> <<"Use ", "4-5", " sentences.">>
      [] style = "long"   -> <<"Use ", "6-8", " sentences.">>

example == <<"09.04.2025:\nAdded a logging system ...\n\n10.04.2025:\nImplemented MFA ...">>

MonthName == <<"January", "February", "March", "April", "May", "June", "July",
               "August", "September", "October", "November", "December">>

Pad2(n) == IF n < 10 THEN "0" \o ToString(n) ELSE ToString(n)

\* date.strftime("%d.%m.%Y")
StrfDotted(date) == Pad2(date.day) \o "." \o Pad2(date.month) \o "." \o ToString(date.year)

\* date.strftime("%B %d, %Y")
StrfLong(date) == MonthName[date.month] \o " " \o Pad2(date.day) \o ", " \o ToString(date.year)

\* the header up to the length directive (lines 102-105)
HeaderBefore(project, date, style) ==
    <<"You are an assistant that writes ", style,
      " daily stand-up updates for software engineers.", "\n",
      "Project: ">> \o project \o
    <<"\n", "Date: ", StrfLong(date), "\n\n",
      "Here are the detailed code diffs for today:", "\n\n">>

\* the header after the length directive (lines 107-109)
HeaderAfter(date) ==
    <<"\n\n", "Generate a status in the exact format of the examples below:", "\n\n">>
    \o example \o
    <<"\n\n", "Now write only the entry for ", StrfDotted(date), ":">>

build_template(project, date, style) ==
    HeaderBefore(project, date, style) \o sentence_map(style) \o HeaderAfter(date)

NoChanges == <<"No code changes today.">>

DiffsBlock(diffs) == IF diffs # <<>> THEN Join(<<"\n\n">>, diffs) ELSE NoChanges

build_full_prompt(diffs, project, date, style) ==
    LET header == build_template(project, date, style)
        diffs_block == DiffsBlock(diffs)
        parts == Split(header, sentence_map(style))
    IN  parts[1] \o diffs_block \o <<"\n\n">> \o sentence_map(style) \o parts[2]

(***************************************************************************)
(* Gemini API call                                                         *)
(*                                                                         *)
(* A response of the remote endpoint is the environment's answer to the    *)
(* POST: a transport error, or an HTTP status with a JSON body whose       *)
(* "candidates" is a list; a candidate is the list of its content.parts,   *)
(* a part is its "text" (a sequence of characters) or NoText.              *)
(***************************************************************************)
NoText == <<"<no text key>">>

Whitespace == {" ", "\n", "\n\n"}

\* Python s.lstrip() / s.rstrip() / s.strip()
RECURSIVE LStrip(_)
LStrip(s) == IF s # <<>> /\ Head(s) \in Whitespace THEN LStrip(Tail(s)) ELSE s

RECURSIVE RStrip(_)
RStrip(s) ==
    IF s # <<>> /\ s[Len(s)] \in Whitespace THEN RStrip(SubSeq(s, 1, Len(s) - 1)) ELSE s

Strip(s) == RStrip(LStrip(s))

\* p.get("text", "")
PartText(p) == IF p = NoText THEN <<>> ELSE p

\* "".join(p.get("text","") for p in parts)
RECURSIVE JoinParts(_)
JoinParts(parts) ==
    IF parts = <<>> THEN <<>> ELSE PartText(Head(parts)) \o JoinParts(Tail(parts))

\* resp.raise_for_status(): 4xx and 5xx raise
RaisesForStatus(status) == status >= 400 /\ status < 600

Raise(exc, msg) == [kind |-> "raise", exc |-> exc, msg |-> msg]

LastCandidate(cands) == cands[Len(cands)]

\* cands[0]
FirstCandidate(cands) == cands[1]

generate_with_gemini(prompt, api_key, resp) ==
    IF resp.transport # "ok" THEN Raise("RequestException", <<resp.transport>>)
    ELSE IF RaisesForStatus(resp.status) THEN Raise("HTTPError", <<ToString(resp.status), " Error for url">>)
    ELSE IF resp.candidates = <<>> THEN Raise("RuntimeError", <<"No response from Gemini API.">>)
    ELSE [kind |-> "str", val |-> Strip(JoinParts(FirstCandidate(resp.candidates)))]

(***************************************************************************)
(* Git helpers                                                             *)
(*                                                                         *)
(* A date is [year, month, day]; a datetime is [ord, sec, usec]: the day   *)
(* counted from 1970-01-01, the second of that day and the microsecond.    *)
(* A repository is [heads, parents, committed_date, active]; a hexsha is   *)
(* <<first seven characters, the rest>>.                                   *)
(***************************************************************************)
SecondsPerDay == 24 * 60 * 60

\* date.toordinal() - date(1970, 1, 1).toordinal()
Ordinal(date) ==
    LET y   == IF date.month <= 2 THEN date.year - 1 ELSE date.year
        era == y \div 400
        yoe == y - era * 400
        mp  == IF date.month > 2 THEN date.month - 3 ELSE date.month + 9
        doy == (153 * mp + 2) \div 5 + date.day - 1
        doe == yoe * 365 + yoe \div 4 - yoe \div 100 + doy
    IN  era * 146097 + doe - 719468

\* dt.time.min and dt.time.max
time_min == [sec |-> 0, usec |-> 0]
time_max == [sec |-> SecondsPerDay - 1, usec |-> 999999]

\* dt.datetime.combine(date, time)
combine(date, time) == [ord |-> Ordinal(date), sec |-> time.sec, usec |-> time.usec]

\* dt.datetime.fromtimestamp(ts) in the local zone, utcoffset seconds east of UTC
fromtimestamp(ts, utcoffset) ==
    [ord  |-> (ts + utcoffset) \div SecondsPerDay,
     sec  |-> (ts + utcoffset) % SecondsPerDay,
     usec |-> 0]

\* a <= b on naive datetimes
DtLE(a, b) ==
    \/ a.ord < b.ord
    \/ a.ord = b.ord /\ a.sec < b.sec
    \/ a.ord = b.ord /\ a.sec = b.sec /\ a.usec <= b.usec

UntilNextMidnight(date) ==
    [ord |-> Ordinal(date) + 1, sec |-> 0, usec |-> 0]

Since(date) == combine(date, time_min)
Until(date) == combine(date, time_max)

\* repo.iter_commits(br): the commits reachable from the head br, each once
RECURSIVE Walk(_, _, _)
Walk(repo, todo, seen) ==
    IF todo = <<>> THEN <<>>
    ELSE IF Head(todo) \in seen THEN Walk(repo, Tail(todo), seen)
    ELSE <<Head(todo)>> \o Walk(repo, Tail(todo) \o repo.parents[Head(todo)],
                                seen \cup {Head(todo)})

iter_commits(repo, br) == Walk(repo, <<repo.heads[br]>>, {})

Short(hexsha) == hexsha[1]

\* repo.git.diff(parent, commit) or repo.git.show(commit) for a root commit
Patch(repo, commit) ==
    IF repo.parents[commit] # <<>>
    THEN "diff " \o Short(repo.parents[commit][1]) \o " " \o Short(commit)
    ELSE "show " \o Short(commit)

\* f"Commit {commit.hexsha[:7]} on {br}:\n{patch}"
DiffEntry(repo, commit, br) ==
    <<"Commit ", Short(commit), " on ", br, ":\n", Patch(repo, commit)>>

\* the entries of one branch (lines 73-81)
RECURSIVE BranchDiffs(_, _, _, _, _)
BranchDiffs(repo, br, commits, date, utcoffset) ==
    IF commits = <<>> THEN <<>>
    ELSE LET commit == Head(commits)
             cd == fromtimestamp(repo.committed_date[commit], utcoffset)
             rest == BranchDiffs(repo, br, Tail(commits), date, utcoffset)
         IN  IF ~(DtLE(Since(date), cd) /\ DtLE(cd, Until(date)))
             THEN rest
             ELSE <<DiffEntry(repo, commit, br)>> \o rest

RECURSIVE AllDiffs(_, _, _, _)
AllDiffs(repo, branches, date, utcoffset) ==
    IF branches = <<>> THEN <<>>
    ELSE BranchDiffs(repo, Head(branches), iter_commits(repo, Head(branches)),
                     date, utcoffset)
         \o AllDiffs(repo, Tail(branches), date, utcoffset)

\* Repo(path): the repository at path, or the exception opening it raises
NoRepo == [heads |-> <<>>, parents |-> <<>>, committed_date |-> <<>>, active |-> "detached"]

gather_diffs(path, branches, date, utcoffset) ==
    IF path.open = "InvalidGitRepositoryError"
    THEN Raise("RuntimeError", <<"Not a Git repository.">>)
    ELSE IF path.open # "ok" THEN Raise(path.open, path.name)
    ELSE IF branches = <<>> /\ path.repo.active = "detached"
    THEN Raise("TypeError", <<"HEAD is a detached symbolic reference">>)
    ELSE LET brs == IF branches # <<>> THEN branches ELSE <<path.repo.active>> IN
         IF \E i \in 1..Len(brs) : brs[i] \notin DOMAIN path.repo.heads
         THEN Raise("GitCommandError", <<"bad revision">>)
         ELSE [kind |-> "list", val |-> AllDiffs(path.repo, brs, date, utcoffset)]

(***************************************************************************)
(* The file system the process sees                                        *)
(***************************************************************************)
Cwd == <<"/home/user">>
RepoDir == <<"/work/repo">>
MissingDir == <<"/no/such/dir">>

\* what Repo(name) finds: a repository, a directory that is none
\* (InvalidGitRepositoryError) or nothing at all (NoSuchPathError); Repo("")
\* opens the working directory
FsOpen(name) ==
    CASE name = RepoDir -> "ok"
      [] name = MissingDir -> "NoSuchPathError"
      [] OTHER -> "InvalidGitRepositoryError"

\* Path(name).stem
Stem(name) ==
    CASE name = RepoDir -> <<"repo">>
      [] name = MissingDir -> <<"dir">>
      [] name = Cwd -> <<"user">>
      [] OTHER -> <<>>

(***************************************************************************)
(* Settings I/O                                                            *)
(*                                                                         *)
(* The settings dict is a function from keys to values.  The config file   *)
(* is absent, text json.loads rejects ("invalid"), or a JSON value: an     *)
(* object (its key/value pairs in order), an array (its items in order,    *)
(* an item being a two-element array <<"pair", k, v>> or a number          *)
(* <<"number">>) or a scalar.                                              *)
(***************************************************************************)
NotSaved == [kind |-> "not saved"]
Today == <<"2025-04-09">>

Defaults ==
    [k \in {"project_folder", "report_style", "branches", "api_key", "prompt_template"} |->
        CASE k = "project_folder"  -> Cwd
          [] k = "report_style"    -> <<"short">>
          [] k = "branches"        -> <<>>
          [] k = "api_key"         -> <<>>
          [] k = "prompt_template" -> <<>>]

\* d[k] = v on a dict
SetItem(d, k, v) == [x \in DOMAIN d \cup {k} |-> IF x = k THEN v ELSE d[x]]

\* dict.update(iterable of items): the items are applied in order; the first
\* item that is no key/value pair raises, and the pairs before it stay applied
RECURSIVE UpdateItems(_, _)
UpdateItems(d, items) ==
    IF items = <<>> THEN [dict |-> d, raised |-> FALSE]
    ELSE IF Head(items)[1] # "pair" THEN [dict |-> d, raised |-> TRUE]
    ELSE UpdateItems(SetItem(d, Head(items)[2], Head(items)[3]), Tail(items))

\* cfg.update(json.loads(text)) inside the try of load_config
UpdateFromFile(d, f) ==
    CASE f.kind = "object" -> UpdateItems(d, f.items)
      [] f.kind = "array"  -> UpdateItems(d, f.items)
      [] OTHER             -> [dict |-> d, raised |-> TRUE]

Warning == [kind |-> "warning", msg |-> <<"Config corrupted - using defaults.">>]

load_config(f) ==
    IF f.kind = "absent" THEN [cfg |-> Defaults, shown |-> <<>>]
    ELSE LET u == UpdateFromFile(Defaults, f) IN
         [cfg |-> u.dict, shown |-> IF u.raised THEN <<Warning>> ELSE <<>>]

\* json.dumps(cfg): an object with one pair per key
RECURSIVE DumpItems(_, _)
DumpItems(d, keys) ==
    IF keys = {} THEN <<>>
    ELSE LET k == CHOOSE x \in keys : TRUE IN
         <<<<"pair", k, d[k]>>>> \o DumpItems(d, keys \ {k})

Dumps(d) == [kind |-> "object", items |-> DumpItems(d, DOMAIN d)]

(***************************************************************************)
(* The repository and the days used throughout                             *)
(***************************************************************************)
Day1 == [year |-> 2025, month |-> 4, day |-> 9]
Day2 == [year |-> 2025, month |-> 4, day |-> 10]

C1sha == <<"1111111", "aaaa">>
C2sha == <<"2222222", "bbbb">>
C3sha == <<"3333333", "cccc">>
Commits == {C1sha, C2sha, C3sha}

\* C1 is the root; C2 (head of main) and C3 (head of dev) are its children
GitParents == (C1sha :> <<>>) @@ (C2sha :> <<C1sha>>) @@ (C3sha :> <<C1sha>>)
GitHeads == [br \in {"main", "dev"} |-> IF br = "main" THEN C2sha ELSE C3sha]

Midnight1 == Ordinal(Day1) * SecondsPerDay

UtcOffsets == {0, 2 * 60 * 60}

\* commit timestamps: one second before and exactly at the local midnights that
\* open and close Day1, for each zone
GitTimes == {Midnight1 + k * SecondsPerDay - off - e :
                k \in {0, 1}, off \in UtcOffsets, e \in {0, 1}}

(***************************************************************************)
(* Main thread: startup (lines 135-258) and the form's handlers            *)
(***************************************************************************)
\* dt.datetime.strptime(s, DATE_FMT).date()
Strptime(s) ==
    CASE s = <<"2025-04-09">> -> [kind |-> "date", val |-> Day1]
      [] s = <<"2025-04-10">> -> [kind |-> "date", val |-> Day2]
      [] OTHER -> Raise("ValueError", <<"time data ">> \o s
                                      \o <<" does not match format '%Y-%m-%d'">>)

\* cfg.get(key, default)
Get(d, key, default) == IF key \in DOMAIN d THEN d[key] ELSE default

\* the repository found at RepoDir
WorkRepo ==
    [heads |-> GitHeads, parents |-> GitParents, active |-> "main",
     committed_date |-> (C1sha :> Midnight1 - 1) @@ (C2sha :> Midnight1)
                        @@ (C3sha :> Midnight1 + SecondsPerDay)]

FsPath(name) ==
    [name |-> name, open |-> FsOpen(name),
     repo |-> IF FsOpen(name) = "ok" THEN WorkRepo ELSE NoRepo]

\* list_branches: the head names, [] for a directory that is no repository; any
\* other failure of Repo() is not caught
list_branches(repo_path) ==
    CASE FsOpen(repo_path) = "ok" -> [kind |-> "list", val |-> <<"dev", "main">>]
      [] FsOpen(repo_path) = "InvalidGitRepositoryError" -> [kind |-> "list", val |-> <<>>]
      [] OTHER -> Raise(FsOpen(repo_path), repo_path)

\* line 140
LoadConfig ==
    /\ pc = "start"
    /\ runs < MaxRuns
    /\ runs' = runs + 1
    /\ cfg' = load_config(file).cfg
    /\ dialogs' = load_config(file).shown
    /\ pc' = "widgets"
    /\ UNCHANGED <<file, saved, formVars, pureVars, genVars>>

\* the default header of lines 211-215 raises for a date that does not parse
\* (ValueError) and for a style that is no key of sentence_map (KeyError)
DefaultHeaderRaises(date_str, style) ==
    Strptime(date_str).kind = "raise" \/ style \notin {<<st>> : st \in Styles}

\* lines 172-258: the widgets are built from cfg; an exception here is caught
\* by nothing and ends the process
BuildWidgets ==
    /\ pc = "widgets"
    /\ LET folder == Get(cfg, "project_folder", <<>>)
           date_str == Get(cfg, "date", Today)
           style == Get(cfg, "report_style", <<"short">>)
           template == Get(cfg, "prompt_template", <<>>)
           heads == list_branches(folder)
       IN  /\ repo_var' = folder
           /\ date_var' = date_str
           /\ style_var' = style
           /\ key_var' = Get(cfg, "api_key", <<>>)
           /\ br_sel' = <<>>
           /\ output_text' = <<>>
           /\ IF template # <<>>
              THEN /\ prompt_text' = template
                   /\ br_list' = IF heads.kind = "list" THEN heads.val ELSE <<>>
                   /\ pc' = IF heads.kind = "list" THEN "form" ELSE "crashed"
              ELSE IF DefaultHeaderRaises(date_str, style)
              THEN /\ prompt_text' = <<>>
                   /\ br_list' = <<>>
                   /\ pc' = "crashed"
              ELSE /\ prompt_text' =
                        build_template(Stem(IF folder # <<>> THEN folder ELSE <<".">>),
                                       Strptime(date_str).val, style[1])
                   /\ br_list' = IF heads.kind = "list" THEN heads.val ELSE <<>>
                   /\ pc' = IF heads.kind = "list" THEN "form" ELSE "crashed"
    /\ UNCHANGED <<file, cfg, dialogs, saved, runs, pureVars, genVars>>

\* the user types into an Entry or picks a directory with Browse
EditField ==
    /\ pc = "form"
    /\ \/ \E v \in {RepoDir} : repo_var' = v /\ UNCHANGED date_var
       \/ \E v \in {<<"2025-04-10">>, <<"yesterday">>} : date_var' = v /\ UNCHANGED repo_var
    /\ UNCHANGED <<style_var, key_var, br_list, br_sel, prompt_text, output_text,
                   appVars, pureVars, genVars>>

\* the rows of the Listbox that are selected, in row order
RECURSIVE Selection(_, _)
Selection(rows, chosen) ==
    IF rows = <<>> THEN <<>>
    ELSE (IF Head(rows) \in chosen THEN <<Head(rows)>> ELSE <<>>)
         \o Selection(Tail(rows), chosen)

SelectBranches ==
    /\ pc = "form"
    /\ \E chosen \in SUBSET {br_list[i] : i \in 1..Len(br_list)} :
          br_sel' = Selection(br_list, chosen)
    /\ UNCHANGED <<repo_var, date_var, style_var, key_var, br_list, prompt_text,
                   output_text, appVars, pureVars, genVars>>

\* lines 224-228: the Listbox is emptied, then filled from list_branches; if
\* that raises, Tk reports the exception and the list stays empty
RefreshBranches ==
    /\ pc = "form"
    /\ br_sel' = <<>>
    /\ br_list' = IF list_branches(repo_var).kind = "list"
                  THEN list_branches(repo_var).val ELSE <<>>
    /\ UNCHANGED <<repo_var, date_var, style_var, key_var, prompt_text, output_text,
                   appVars, pureVars, genVars>>

UserNote == <<"\n", "Also mention the tests.">>
UserPrompts == {<<"My own prompt.">>, <<>>}

\* the user edits the prompt area: replaces its text, or adds a note to it
EditPrompt ==
    /\ pc = "form"
    /\ \/ \E v \in UserPrompts : prompt_text' = v
       \/ /\ prompt_text # <<>>
          /\ ~Contains(prompt_text, UserNote)
          /\ prompt_text' = prompt_text \o UserNote
    /\ UNCHANGED <<repo_var, date_var, style_var, key_var, br_list, br_sel,
                   output_text, appVars, pureVars, genVars>>

\* widget.get('1.0', 'end'): Tk appends a newline to the content
TextGet(content) == content \o <<"\n">>

\* the saves this process has tried
SavesDone == Cardinality({i \in 1..Len(dialogs) : dialogs[i].kind # "warning"})

\* lines 230-239 with save_config: the write succeeds or raises
on_save ==
    /\ pc = "form"
    /\ SavesDone < MaxSaves
    /\ LET updates == <<<<"pair", "project_folder", repo_var>>,
                        <<"pair", "date", date_var>>,
                        <<"pair", "report_style", style_var>>,
                        <<"pair", "branches", br_sel>>,
                        <<"pair", "api_key", key_var>>,
                        <<"pair", "prompt_template", RStrip(TextGet(prompt_text))>>>>
       IN  cfg' = UpdateItems(cfg, updates).dict
    /\ \/ /\ file' = Dumps(cfg')
          /\ saved' = cfg'
          /\ dialogs' = Append(dialogs, [kind |-> "info", msg |-> <<"Settings saved.">>])
       \/ /\ UNCHANGED <<file, saved>>
          /\ dialogs' = Append(dialogs, [kind |-> "error",
                                         msg |-> <<"Cannot save settings:\n", "OSError">>])
    /\ UNCHANGED <<pc, runs, formVars, pureVars, genVars>>

\* the window is closed, or the process has died: the next process starts afresh
Quit ==
    /\ pc \in {"form", "crashed"}
    /\ pc' = "start"
    /\ cfg' = Defaults
    /\ dialogs' = <<>>
    /\ repo_var' = <<>> /\ date_var' = <<>> /\ style_var' = <<>> /\ key_var' = <<>>
    /\ br_list' = <<>> /\ br_sel' = <<>>
    /\ prompt_text' = <<>> /\ output_text' = <<>>
    /\ UNCHANGED <<file, saved, runs, pureVars, genVars>>

(***************************************************************************)
(* Generation (lines 153-170, 244-254): each Generate click starts a       *)
(* daemon thread running _generate; every widget call, the POST and the    *)
(* error dialog is one step of the thread.                                 *)
(***************************************************************************)
Threads == 1..MaxClicks

NotStarted ==
    [pc |-> "idle", repo_path |-> <<>>, branches |-> <<>>, date_str |-> <<>>,
     rpt_style |-> <<>>, api_key |-> <<>>, at_click |-> <<>>, edited |-> <<>>,
     sent |-> <<>>, res |-> <<>>, err |-> <<>>, posted |-> 0, failed_at |-> "nowhere"]

NoGeneration ==
    /\ gen = [t \in Threads |-> NotStarted]
    /\ clicks = 0
    /\ posts = 0

\* the zone of the machine, seconds east of UTC
LocalUtcOffset == 2 * 60 * 60

\* Python s.replace(old, new), old non-empty
RECURSIVE Replace(_, _, _)
Replace(s, old, new) ==
    LET i == Find(s, old) IN
    IF i = 0 THEN s
    ELSE SubSeq(s, 1, i - 1) \o new \o Replace(SubSeq(s, i + Len(old), Len(s)), old, new)

\* lines 157-160 for the arguments of thread t: the first exception raised, or
\* the locals date_obj, diffs, proj, header
Prepared(g) ==
    LET parsed == Strptime(g.date_str) IN
    IF parsed.kind = "raise" THEN [kind |-> "raise", at |-> "date", msg |-> parsed.msg]
    ELSE LET diffs == gather_diffs(FsPath(g.repo_path), g.branches, parsed.val,
                                   LocalUtcOffset) IN
         IF diffs.kind = "raise" THEN [kind |-> "raise", at |-> "diffs", msg |-> diffs.msg]
         ELSE IF g.rpt_style \notin {<<st>> : st \in Styles}
         THEN [kind |-> "raise", at |-> "template", msg |-> <<"'">> \o g.rpt_style \o <<"'">>]
         ELSE [kind |-> "ok", date_obj |-> parsed.val, diffs |-> diffs.val,
               proj |-> Stem(g.repo_path),
               header |-> build_template(Stem(g.repo_path), parsed.val, g.rpt_style[1])]

\* line 163
FullPrompt(g) ==
    build_full_prompt(Prepared(g).diffs, Prepared(g).proj, Prepared(g).date_obj,
                      g.rpt_style[1])

\* what the user has entered in the form when clicking Generate: the folder,
\* the date and the selected branches
FormInputs ==
    {<<RepoDir, Today, <<"main">>>>, <<RepoDir, <<"yesterday">>, <<>>>>,
     <<Cwd, Today, <<>>>>, <<MissingDir, Today, <<>>>>}

\* lines 244-254: the button's command starts the thread, whose target reads the
\* form (lines 246-250) and calls _generate; the fields hold what the user
\* entered before clicking
StartThread(t) ==
    /\ pc = "form"
    /\ t = clicks + 1
    /\ t \in Threads
    /\ clicks' = t
    /\ \E f \in FormInputs :
          /\ repo_var' = f[1] /\ date_var' = f[2] /\ br_sel' = f[3]
          /\ gen' = [gen EXCEPT ![t] =
                        [NotStarted EXCEPT !.pc = "clear", !.repo_path = repo_var',
                                           !.branches = br_sel', !.date_str = date_var',
                                           !.rpt_style = style_var, !.api_key = key_var,
                                           !.at_click = prompt_text]]
    /\ UNCHANGED <<posts, appVars, pureVars, style_var, key_var, br_list, prompt_text,
                   output_text>>

InFlight(t) == gen[t].pc \notin {"idle", "done"}

\* a click while earlier generations may still be running
Generate == \E t \in Threads : StartThread(t)

\* a click made only when no generation is in flight
GenerateAlone ==
    /\ \A u \in Threads : ~InFlight(u)
    /\ \E t \in Threads : StartThread(t)

\* _generate has returned: what stays known of the thread is how it ended, the
\* report or the error it showed, and the POSTs it made
Ended(g) ==
    [NotStarted EXCEPT !.pc = "done", !.res = g.res, !.err = g.err,
                       !.posted = g.posted, !.failed_at = g.failed_at,
                       !.repo_path = g.repo_path]

\* line 154: output_w.delete('1.0','end')
ClearOutput(t) ==
    /\ gen[t].pc = "clear"
    /\ output_text' = <<>>
    /\ gen' = [gen EXCEPT ![t].pc = "processing"]
    /\ UNCHANGED <<clicks, posts, appVars, pureVars, repo_var, date_var, style_var,
                   key_var, br_list, br_sel, prompt_text>>

\* line 155: output_w.insert('end','Processing...')
ShowProcessing(t) ==
    /\ gen[t].pc = "processing"
    /\ output_text' = output_text \o <<"Processing...">>
    /\ gen' = [gen EXCEPT ![t].pc = "prepare"]
    /\ UNCHANGED <<clicks, posts, appVars, pureVars, repo_var, date_var, style_var,
                   key_var, br_list, br_sel, prompt_text>>

\* lines 157-160: strptime, gather_diffs, build_template; an exception goes to
\* the handler of line 168
Prepare(t) ==
    /\ gen[t].pc = "prepare"
    /\ IF Prepared(gen[t]).kind = "raise"
       THEN gen' = [gen EXCEPT ![t].pc = "handler",
                               ![t].err = Prepared(gen[t]).msg,
                               ![t].failed_at = Prepared(gen[t]).at]
       ELSE gen' = [gen EXCEPT ![t].pc = "clear_prompt"]
    /\ UNCHANGED <<clicks, posts, appVars, pureVars, formVars>>

\* line 161: prompt_w.delete('1.0','end')
ClearPrompt(t) ==
    /\ gen[t].pc = "clear_prompt"
    /\ prompt_text' = <<>>
    /\ gen' = [gen EXCEPT ![t].pc = "fill_prompt"]
    /\ UNCHANGED <<clicks, posts, appVars, pureVars, repo_var, date_var, style_var,
                   key_var, br_list, br_sel, output_text>>

\* line 162: prompt_w.insert('end', header)
FillPrompt(t) ==
    /\ gen[t].pc = "fill_prompt"
    /\ prompt_text' = prompt_text \o Prepared(gen[t]).header
    /\ gen' = [gen EXCEPT ![t].pc = "read_prompt"]
    /\ UNCHANGED <<clicks, posts, appVars, pureVars, repo_var, date_var, style_var,
                   key_var, br_list, br_sel, output_text>>

\* lines 163-164: edited = prompt_w.get('1.0','end').strip()
ReadPrompt(t) ==
    /\ gen[t].pc = "read_prompt"
    /\ gen' = [gen EXCEPT ![t].pc = "post", ![t].edited = Strip(TextGet(prompt_text))]
    /\ UNCHANGED <<clicks, posts, appVars, pureVars, formVars>>

\* the answers the remote endpoint may give to a POST
Replies ==
    {[transport |-> "timeout", status |-> 0, candidates |-> <<>>],
     [transport |-> "ok", status |-> 500, candidates |-> <<>>],
     [transport |-> "ok", status |-> 200, candidates |-> <<>>],
     [transport |-> "ok", status |-> 200,
      candidates |-> <<<<<<"Did ">>, <<"X.", "\n">>>>>>]}

RetriedAttempts(reply) == IF reply.kind = "raise" THEN 2 ELSE 1

\* requests.post calls made by one generate_with_gemini call (lines 121-126)
Attempts(reply) == 1

\* line 165: generate_with_gemini(full.replace(header, edited), api_key)
Post(t) ==
    /\ gen[t].pc = "post"
    /\ \E resp \in Replies :
          LET prompt == Replace(FullPrompt(gen[t]), Prepared(gen[t]).header, gen[t].edited)
              reply == generate_with_gemini(prompt, gen[t].api_key, resp)
          IN  /\ posts' = posts + Attempts(reply)
              /\ IF reply.kind = "raise"
                 THEN gen' = [gen EXCEPT ![t].pc = "handler", ![t].err = reply.msg,
                                         ![t].failed_at = "post", ![t].sent = prompt,
                                         ![t].edited = <<>>,
                                         ![t].posted = @ + Attempts(reply)]
                 ELSE gen' = [gen EXCEPT ![t].pc = "clear_result", ![t].res = reply.val,
                                         ![t].sent = prompt, ![t].edited = <<>>,
                                         ![t].posted = @ + Attempts(reply)]
    /\ UNCHANGED <<clicks, appVars, pureVars, formVars>>

\* line 166: output_w.delete('1.0','end')
ClearForResult(t) ==
    /\ gen[t].pc = "clear_result"
    /\ output_text' = <<>>
    /\ gen' = [gen EXCEPT ![t].pc = "show_result"]
    /\ UNCHANGED <<clicks, posts, appVars, pureVars, repo_var, date_var, style_var,
                   key_var, br_list, br_sel, prompt_text>>

\* line 167: output_w.insert('end', res)
ShowResult(t) ==
    /\ gen[t].pc = "show_result"
    /\ output_text' = output_text \o gen[t].res
    /\ gen' = [gen EXCEPT ![t] = Ended(gen[t])]
    /\ UNCHANGED <<clicks, posts, appVars, pureVars, repo_var, date_var, style_var,
                   key_var, br_list, br_sel, prompt_text>>

\* line 169: output_w.delete('1.0','end')
ClearOnError(t) ==
    /\ gen[t].pc = "handler"
    /\ output_text' = <<>>
    /\ gen' = [gen EXCEPT ![t].pc = "show_error"]
    /\ UNCHANGED <<clicks, posts, appVars, pureVars, repo_var, date_var, style_var,
                   key_var, br_list, br_sel, prompt_text>>

\* line 170: messagebox.showerror(APP_NAME, str(e))
ShowError(t) ==
    /\ gen[t].pc = "show_error"
    /\ dialogs' = Append(dialogs, [kind |-> "error", msg |-> gen[t].err, by |-> t])
    /\ gen' = [gen EXCEPT ![t] = Ended(gen[t])]
    /\ UNCHANGED <<clicks, posts, file, cfg, pc, saved, runs, pureVars, formVars>>

\* no process is running while a pure function is called on its own
AppIdle ==
    /\ file = [kind |-> "absent"]
    /\ cfg = Defaults
    /\ pc = "start"
    /\ dialogs = <<>>
    /\ repo_var = <<>> /\ date_var = <<>> /\ style_var = <<>> /\ key_var = <<>>
    /\ br_list = <<>> /\ br_sel = <<>>
    /\ prompt_text = <<>> /\ output_text = <<>>
    /\ saved = NotSaved
    /\ runs = 0
    /\ NoGeneration

(***************************************************************************)
(* SpecPrompt: build_full_prompt on bounded inputs                         *)
(***************************************************************************)
NameAlphabet == {"repo", "Use ", "2-3", " sentences."}
Projects == SeqsUpTo(NameAlphabet, MaxNameLen)
Dates == {[year |-> 2025, month |-> 4, day |-> 9],
          [year |-> 2024, month |-> 12, day |-> 31]}
DiffTexts == {<<"Commit aaaaaaa on main:\n", "patchA">>,
              <<"Commit bbbbbbb on dev:\n", "patchB">>}
DiffLists == SeqsUpTo(DiffTexts, MaxDiffs)

PromptArgs == [fn : {"build_full_prompt"}, diffs : DiffLists, project : Projects,
               date : Dates, style : Styles]

InitPrompt ==
    /\ call \in PromptArgs
    /\ ret = NoRet
    /\ AppIdle

CallBuildFullPrompt ==
    /\ call.fn = "build_full_prompt"
    /\ ret = NoRet
    /\ ret' = [kind |-> "str",
               val |-> build_full_prompt(call.diffs, call.project, call.date, call.style)]
    /\ UNCHANGED <<call, appVars, formVars, genVars>>

NextPrompt == CallBuildFullPrompt

SpecPrompt == InitPrompt /\ [][NextPrompt]_vars

\* C6: for every project name, date, style and diff list the output of
\* build_full_prompt contains the project name, the formatted date and the
\* sentence-count directive of the style, and the diffs block (the diffs joined
\* by a blank line, or "No code changes today." for an empty list).
C6_PromptContainsAll ==
    (call.fn = "build_full_prompt" /\ ret.kind = "str") =>
        /\ Contains(ret.val, call.project)
        /\ Contains(ret.val, <<StrfLong(call.date)>>)
        /\ Contains(ret.val, sentence_map(call.style))
        /\ Contains(ret.val, DiffsBlock(call.diffs))

\* C7: for every project name (also one containing the length-directive phrase)
\* build_full_prompt returns the header with the diffs block and a blank line
\* inserted immediately before the length directive and nothing else changed.
C7_SpliceKeepsHeader ==
    (call.fn = "build_full_prompt" /\ ret.kind = "str") =>
        ret.val = HeaderBefore(call.project, call.date, call.style)
                  \o DiffsBlock(call.diffs) \o <<"\n\n">>
                  \o sentence_map(call.style) \o HeaderAfter(call.date)

(***************************************************************************)
(* SpecGemini: generate_with_gemini on bounded responses                   *)
(***************************************************************************)
PartTexts == {<<>>, <<" ">>, <<"a">>, <<" ", "a">>, <<"b", "\n">>, <<"a", " ", "b">>}
Parts == PartTexts \cup {NoText}
RichCandidates == SeqsUpTo(Parts, MaxParts)
OtherCandidates == {<<<<"x">>>>, <<<<" ">>, <<"y">>>>}
CandidateLists ==
    {<<>>} \cup {<<c>> \o rest : c \in RichCandidates,
                                 rest \in SeqsUpTo(OtherCandidates, MaxCands - 1)}
Responses ==
    [transport : {"timeout", "connection refused"}, status : {0}, candidates : {<<>>}]
    \cup [transport : {"ok"}, status : {200, 404, 500}, candidates : CandidateLists]

GeminiArgs == [fn : {"generate_with_gemini"}, prompt : {<<"prompt">>},
               api_key : {"key"}, resp : Responses]

InitGemini ==
    /\ call \in GeminiArgs
    /\ ret = NoRet
    /\ AppIdle

CallGenerateWithGemini ==
    /\ call.fn = "generate_with_gemini"
    /\ ret = NoRet
    /\ ret' = generate_with_gemini(call.prompt, call.api_key, call.resp)
    /\ UNCHANGED <<call, appVars, formVars, genVars>>

NextGemini == CallGenerateWithGemini

SpecGemini == InitGemini /\ [][NextGemini]_vars

GeminiReturned == call.fn = "generate_with_gemini" /\ ret # NoRet

\* the text fragments of the first candidate's parts, concatenated in order
FirstCandidateText == JoinParts(call.resp.candidates[1])

GeminiMustFail ==
    \/ call.resp.transport # "ok"
    \/ call.resp.status \notin 200..299
    \/ call.resp.candidates = <<>>

AllWhite(s) == \A i \in 1..Len(s) : s[i] \in Whitespace

Repos == [heads : {GitHeads}, parents : {GitParents},
          committed_date : [Commits -> GitTimes], active : {"main", "detached"}]

RepoPaths == [name : {RepoDir}, open : {"ok"}, repo : Repos]
BadPaths == [name : {Cwd, MissingDir},
             open : {"InvalidGitRepositoryError", "NoSuchPathError"}, repo : {NoRepo}]

GitArgs == [fn : {"gather_diffs"}, path : RepoPaths \cup BadPaths,
            branches : SeqsUpTo({"main", "dev", "gone"}, MaxBranches),
            date : {Day1, Day2}, utcoffset : UtcOffsets]

InitGit ==
    /\ call \in GitArgs
    /\ ret = NoRet
    /\ AppIdle

CallGatherDiffs ==
    /\ call.fn = "gather_diffs"
    /\ ret = NoRet
    /\ ret' = gather_diffs(call.path, call.branches, call.date, call.utcoffset)
    /\ UNCHANGED <<call, appVars, formVars, genVars>>

NextGit == CallGatherDiffs

SpecGit == InitGit /\ [][NextGit]_vars

GitReturned == call.fn = "gather_diffs" /\ ret.kind = "list"

\* the branches gather_diffs is asked about: B, or the current branch for empty B
AskedBranches ==
    IF call.branches # <<>> THEN {call.branches[i] : i \in 1..Len(call.branches)}
    ELSE {call.path.repo.active}

\* the commits reachable from a head: the head and the ancestors of its parents
ParentsOf(repo, cs) ==
    UNION {{repo.parents[c][i] : i \in 1..Len(repo.parents[c])} : c \in cs}

RECURSIVE Closure(_, _, _)
Closure(repo, cs, n) ==
    IF n = 0 THEN cs ELSE Closure(repo, cs \cup ParentsOf(repo, cs), n - 1)

ReachableFrom(repo, br) == Closure(repo, {repo.heads[br]}, Cardinality(Commits))

\* the commit's timestamp, read as local time, lies in D 00:00:00 .. D 23:59:59
InWindow(commit) ==
    LET localSecs == call.path.repo.committed_date[commit] + call.utcoffset
        dayStart == Ordinal(call.date) * SecondsPerDay
    IN  localSecs >= dayStart /\ localSecs <= dayStart + SecondsPerDay - 1

HasEntry(commit) == \E k \in 1..Len(ret.val) : ret.val[k][2] = Short(commit)

\* C1: gather_diffs returns an entry for a commit iff the commit is reachable
\* from a branch named in B (the current branch when B is empty) and its
\* timestamp, read as local time, lies within D 00:00:00 .. D 23:59:59; every
\* entry is labelled with a branch of B from which its commit is reachable.
C1_EntriesExactlyInWindow ==
    GitReturned =>
        /\ \A c \in Commits :
              HasEntry(c) <=>
                 /\ InWindow(c)
                 /\ \E br \in AskedBranches : c \in ReachableFrom(call.path.repo, br)
        /\ \A k \in 1..Len(ret.val) :
              /\ ret.val[k][4] \in AskedBranches
              /\ \E c \in ReachableFrom(call.path.repo, ret.val[k][4]) :
                    Short(c) = ret.val[k][2] /\ InWindow(c)

\* with B = <<main>> and a zone east of UTC: main's head committed in the last
\* second of D has an entry, the root committed at the next local midnight has
\* none, and dev's head, inside the window, has none either
C1_Witness ==
    /\ GitReturned
    /\ call.branches = <<"main">>
    /\ call.utcoffset # 0
    /\ LET cd == call.path.repo.committed_date
           dayStart == Ordinal(call.date) * SecondsPerDay - call.utcoffset
       IN  /\ cd[C2sha] = dayStart + SecondsPerDay - 1
           /\ cd[C1sha] = dayStart + SecondsPerDay
           /\ cd[C3sha] = dayStart
    /\ HasEntry(C2sha) /\ ~HasEntry(C1sha) /\ ~HasEntry(C3sha)

(***************************************************************************)
(* SpecConfig: startup, the form, Save settings and restart, over bounded  *)
(* contents of the config file                                             *)
(***************************************************************************)
Absent == <<"<absent>">>

\* per key: not in the file, or one of these values
FileChoices ==
    [date : {Absent, <<"2025-04-10">>, <<"yesterday">>},
     report_style : {Absent, <<"brief">>},
     prompt_template : {Absent, <<"Saved prompt.">>},
     project_folder : {Absent, RepoDir, MissingDir}]

ItemOf(key, v) == IF v = Absent THEN <<>> ELSE <<<<"pair", key, v>>>>

ObjectFiles ==
    {[kind |-> "object",
      items |-> ItemOf("project_folder", c.project_folder)
                \o ItemOf("date", c.date)
                \o ItemOf("report_style", c.report_style)
                \o ItemOf("prompt_template", c.prompt_template)] : c \in FileChoices}

ArrayFiles ==
    [kind : {"array"},
     items : SeqsUpTo({<<"pair", "report_style", <<"long">>>>, <<"number">>}, MaxItems)
             \ {<<>>}]

Files ==
    {[kind |-> "absent"], [kind |-> "invalid"], [kind |-> "scalar"]}
    \cup ObjectFiles \cup ArrayFiles

NoCall == [fn |-> "none"]

InitConfig ==
    /\ file \in Files
    /\ cfg = Defaults
    /\ pc = "start"
    /\ dialogs = <<>>
    /\ repo_var = <<>> /\ date_var = <<>> /\ style_var = <<>> /\ key_var = <<>>
    /\ br_list = <<>> /\ br_sel = <<>>
    /\ prompt_text = <<>> /\ output_text = <<>>
    /\ saved = NotSaved
    /\ runs = 0
    /\ NoGeneration
    /\ call = NoCall
    /\ ret = NoRet

NextConfig ==
    \/ LoadConfig
    \/ BuildWidgets
    \/ EditField
    \/ SelectBranches
    \/ RefreshBranches
    \/ EditPrompt
    \/ on_save
    \/ Quit

SpecConfig == InitConfig /\ [][NextConfig]_vars

\* load_config has just returned
JustLoaded == pc = "widgets"

\* the file exists and its content does not parse into a preferences record
FileCorrupted == file.kind \notin {"absent", "object"}

\* C5: after a successful save_config(cfg), load_config() returns a record
\* identical to cfg; and for a file that exists but does not parse into a
\* preferences record, load_config() returns exactly the default record, no
\* field taken from the file, and shows a warning.
C5_SettingsRoundTrip ==
    JustLoaded =>
        /\ saved # NotSaved => cfg = saved
        /\ FileCorrupted =>
              /\ cfg = Defaults
              /\ \E i \in 1..Len(dialogs) : dialogs[i] = Warning

\* C8: whatever the config file holds, startup reaches the form and never ends
\* in an uncaught error.
C8_StartupNeverFatal == pc # "crashed"

(***************************************************************************)
(* SpecUI: the form after startup, Generate clicked at any time            *)
(* SpecSolo: the same, Generate clicked only when no generation is running *)
(***************************************************************************)
InitUI ==
    /\ file = [kind |-> "absent"]
    /\ cfg = Defaults
    /\ pc = "form"
    /\ dialogs = <<>>
    /\ repo_var = RepoDir
    /\ date_var = Today
    /\ style_var = <<"short">>
    /\ key_var = <<"secret">>
    /\ br_list = IF list_branches(repo_var).kind = "list"
                 THEN list_branches(repo_var).val ELSE <<>>
    /\ br_sel = <<>>
    /\ prompt_text = build_template(Stem(repo_var), Day1, "short")
    /\ output_text = <<>>
    /\ saved = NotSaved
    /\ runs = 1
    /\ NoGeneration
    /\ call = NoCall
    /\ ret = NoRet

ThreadStep(t) ==
    \/ ClearOutput(t)
    \/ ShowProcessing(t)
    \/ Prepare(t)
    \/ ClearPrompt(t)
    \/ FillPrompt(t)
    \/ ReadPrompt(t)
    \/ Post(t)
    \/ ClearForResult(t)
    \/ ShowResult(t)
    \/ ClearOnError(t)
    \/ ShowError(t)

NextUI ==
    \/ Generate
    \/ \E t \in Threads : ThreadStep(t)

SpecUI == InitUI /\ [][NextUI]_vars

NextSolo ==
    \/ GenerateAlone
    \/ EditPrompt
    \/ \E t \in Threads : ThreadStep(t)

SpecSolo == InitUI /\ [][NextSolo]_vars

Started == 1..clicks
AllDone == clicks >= 1 /\ \A t \in Started : gen[t].pc = "done"
Failed(t) == gen[t].pc = "done" /\ gen[t].failed_at # "nowhere"
Succeeded(t) == gen[t].pc = "done" /\ gen[t].failed_at = "nowhere"
ErrorsOf(t) == {i \in 1..Len(dialogs) : dialogs[i].kind = "error" /\ dialogs[i].by = t}

\* C2: a generation run alone that fails at any step ends with the output area
\* empty and exactly one error dialog carrying the failure's message, which is
\* "Not a Git repository." when the path is not a Git repository.
C2_FailureClearsAndReports ==
    \A t \in Started :
        (t = clicks /\ Failed(t)) =>
            /\ output_text = <<>>
            /\ Cardinality(ErrorsOf(t)) = 1
            /\ \A i \in ErrorsOf(t) : dialogs[i].msg = gen[t].err
            /\ (gen[t].failed_at = "diffs" /\ FsOpen(gen[t].repo_path) # "ok") =>
                  \A i \in ErrorsOf(t) : dialogs[i].msg = <<"Not a Git repository.">>

\* the text the user had put into the prompt area when Generate was clicked
UserEdited(t) ==
    \/ gen[t].at_click = <<"My own prompt.">>
    \/ Contains(gen[t].at_click, UserNote)

\* C4: if the prompt area holds user-edited text when Generate is triggered, the
\* string passed to generate_with_gemini contains that edited text.
C4_PromptReflectsEdits ==
    \A t \in Started :
        (gen[t].posted > 0 /\ UserEdited(t)) => Contains(gen[t].sent, gen[t].at_click)

\* C9: once every started generation has completed, the output area holds
\* exactly the report text of one successful generation, or nothing.
C9_OutputIsOneReport ==
    AllDone =>
        \/ output_text = <<>>
        \/ \E t \in Started : Succeeded(t) /\ output_text = gen[t].res

\* C10: each Generate click issues at most one POST, none when the date does
\* not parse or diff collection fails, none after a failed POST; the POSTs
\* never outnumber the clicks.
C10_AtMostOnePostPerClick ==
    /\ \A t \in Threads :
          /\ gen[t].posted <= 1
          /\ gen[t].failed_at \in {"date", "diffs", "template"} => gen[t].posted = 0
          /\ gen[t].failed_at = "post" => gen[t].posted = 1
          /\ gen[t].pc = "idle" => gen[t].posted = 0
    /\ posts <= clicks

\* two clicks have completed: one aborted on its date before any POST, the
\* other made its single POST, which failed
C10_Witness ==
    /\ clicks >= 2
    /\ AllDone
    /\ \E t \in Started : gen[t].failed_at = "date" /\ gen[t].posted = 0
    /\ \E t \in Started : gen[t].failed_at = "post" /\ gen[t].posted = 1
    /\ posts = 1

====
